---- MODULE Spec2Model ----
(***************************************************************************)
(* A model of package fork (src/fork.go): a launch descriptor (Function)   *)
(* wrapping an exec.Cmd, with the operations NewFork, Fork, ReFork and     *)
(* Wait, the temporary argument files they create and the child processes  *)
(* they start.                                                             *)
(***************************************************************************)
EXTENDS Integers, Sequences, FiniteSets, TLC

\* Longest argument list a caller passes to Fork / ReFork.
MaxArgs == 2
\* Number of temporary argument files (launch attempts) in one run.
MaxFiles == 2

(***************************************************************************)
(* Values of the Go program.                                               *)
(***************************************************************************)
\* An untyped nil interface value (io.Reader / io.Writer left unset).
NilIface == "nil"
\* A nil *os.File, also when it is stored in an interface.
NilFile == "(*os.File)(nil)"
\* A nil *syscall.SysProcAttr, *os.Process is 0, a nil *os.ProcessState.
NilAttr == "nil"
NilState == "nil"

\* The parent's own streams and the files a caller may bind instead.
CallerFiles == {NilFile, "file"}
CallerAttrs == {NilAttr, "attr"}

\* The argument values a caller passes: reflect kind and value.  An untyped
\* nil has no runtime type (reflect.TypeOf gives nil, reflect.ValueOf the
\* zero Value, whose kind is Invalid).
NilArg == [kind |-> "invalid", val |-> "nil"]
ArgValues ==
    { [kind |-> "int", val |-> "3"],
      [kind |-> "string", val |-> "x"],
      [kind |-> "func", val |-> "cb"],
      NilArg }
ArgLists == UNION { [1..n -> ArgValues] : n \in 0..MaxArgs }

\* The values handed to NewFork as fn: two functions, func(int, string) and
\* func(func()), a value that is no function, and nil.
FuncTargets ==
    { [kind |-> "func", in |-> <<"int", "string">>],
      [kind |-> "func", in |-> <<"func">>] }
Targets ==
    FuncTargets \cup
    { [kind |-> "int", in |-> <<>>], [kind |-> "invalid", in |-> <<>>] }

\* os.Args[0], and the explicit argument vectors a caller gives NewFork.
osArgs0 == "prog"
ArgVectors == { <<>>, <<"worker", "-x">> }

\* os.Executable(): the path of the running binary, or "" when the query
\* fails.
Executables == {"/bin/prog", ""}

\* os.Environ().
osEnviron == << [var |-> "PATH", val |-> "/bin"] >>

\* The names of the two environment variables of the protocol.
nameVar == "nameVar"
argsVar == "argsVar"

\* How a child can end.
Outcomes == {"exit 0", "exit 1", "signal"}

(***************************************************************************)
(* Errors.  An error is its message: the kind says which message it is,    *)
(* tag the number the message prints in parentheses, got and want the two  *)
(* kinds it prints, sig the printed signature.                             *)
(***************************************************************************)
Err(kind) == [kind |-> kind, tag |-> 0, got |-> "", want |-> "", sig |-> <<>>]
NoErr == Err("nil")
\* A run-time panic: the call does not return.
Panic == Err("panic")

(***************************************************************************)
(* Signature validation (validateArgs).  Positions are 1-based here and    *)
(* 0-based in the source: position i of the model is position i - 1 of     *)
(* the program.                                                            *)
(***************************************************************************)
\* fmt.Errorf("incorrect number of args for: %s", t.String())
ArityErr(t) == [Err("incorrect number of args") EXCEPT !.sig = t]

\* MismatchErr with the two kinds printed the other way round.
MismatchErr_swapped(got, want) ==
    [Err("argument mismatch") EXCEPT !.tag = 1, !.got = want, !.want = got]

\* fmt.Errorf("argument mismatch (1) %s != %s", <kind of args[i]>, <kind of In(i)>)
MismatchErr(got, want) ==
    [Err("argument mismatch") EXCEPT !.tag = 1, !.got = got, !.want = want]

\* The loop over the parameters, from position i on.  reflect.TypeOf of an
\* untyped nil is the nil Type, and calling Kind() on it panics.
RECURSIVE checkKinds(_, _, _)
checkKinds(t, args, i) ==
    IF i > Len(t) THEN NoErr
    ELSE IF args[i] = NilArg THEN Panic
    ELSE IF t[i] # args[i].kind THEN MismatchErr(args[i].kind, t[i])
    ELSE checkKinds(t, args, i + 1)

\* validateArgs rejecting too few arguments only.
validateArgs_atLeast(fn, args) ==
    IF Len(args) < Len(fn.in) THEN ArityErr(fn.in)
    ELSE checkKinds(fn.in, args, 1)

validateArgs(fn, args) ==
    IF Len(args) # Len(fn.in) THEN ArityErr(fn.in)
    ELSE checkKinds(fn.in, args, 1)

(***************************************************************************)
(* The argument channel: gob encoding of the arguments into the temp file. *)
(***************************************************************************)
\* The kinds gob can encode; a func value and the zero reflect.Value are
\* rejected with an error and nothing of them is written.
Encodable(v) == v.kind \in {"int", "string"}

\* enc.EncodeValue(reflect.ValueOf(iv)), its error dropped: what reaches the
\* file.
EncodeValue(v) ==
    IF Encodable(v) THEN << [type |-> v.kind, data |-> v.val] >> ELSE <<>>

\* EncodeArgs giving up at the first value that cannot be encoded.
RECURSIVE EncodeArgs_stopAtError(_)
EncodeArgs_stopAtError(args) ==
    IF args = <<>> \/ ~Encodable(Head(args)) THEN <<>>
    ELSE EncodeValue(Head(args)) \o EncodeArgs_stopAtError(Tail(args))

\* for _, iv := range args { enc.EncodeValue(...) }
RECURSIVE EncodeArgs(_)
EncodeArgs(args) ==
    IF args = <<>> THEN <<>>
    ELSE EncodeValue(Head(args)) \o EncodeArgs(Tail(args))

\* The child's decoding of a file, value by value in the order written.
Decode(content) ==
    [i \in 1..Len(content) |-> [kind |-> content[i].type, val |-> content[i].data]]

\* ioutil.TempFile("", "gofork_*"): the n-th file gets a name of its own.
TempName(n) == "gofork_" \o ToString(n)

(***************************************************************************)
(* exec.Cmd.                                                               *)
(***************************************************************************)
\* exec.Cmd{}
ZeroCmd ==
    [ Path |-> "", Args |-> <<>>, Env |-> <<>>,
      Stdin |-> NilIface, Stdout |-> NilIface, Stderr |-> NilIface,
      SysProcAttr |-> NilAttr, Process |-> 0, ProcessState |-> NilState,
      finished |-> FALSE ]

\* NewForkCommand without the default for an empty args.
NewForkCommand_noDefault(path, args) ==
    [ ZeroCmd EXCEPT
        !.Path = path,
        !.Args = args,
        !.Stderr = "os.Stderr", !.Stdout = "os.Stdout", !.Stdin = "os.Stdin" ]

\* The Command NewFork builds.
NewForkCommand(path, args) ==
    [ ZeroCmd EXCEPT
        !.Path = path,
        !.Args = IF Len(args) = 0 THEN <<osArgs0>> ELSE args,
        !.Stderr = "os.Stderr", !.Stdout = "os.Stdout", !.Stdin = "os.Stdin" ]

\* The Function struct as NewFork leaves it: the exported stream fields
\* and SysProcAttr are not assigned and keep their zero value.
NewFunction(n, fn, path, args) ==
    [ Name |-> n, fn |-> fn,
      Stdin |-> NilFile, Stdout |-> NilFile, Stderr |-> NilFile,
      SysProcAttr |-> NilAttr, Process |-> 0, ProcessState |-> NilState,
      Command |-> NewForkCommand(path, args) ]

\* Fork's copy of the descriptor's bindings into its Command.
ForkCommand(d) ==
    [ d.Command EXCEPT
        !.Stderr = d.Stderr, !.Stdout = d.Stdout, !.Stdin = d.Stdin,
        !.SysProcAttr = d.SysProcAttr ]

\* ReForkCommand with the argv of a descriptor built without args.
ReForkCommand_defaultArgs(d, path) ==
    [ ZeroCmd EXCEPT
        !.Path = path,
        !.Args = <<osArgs0>>,
        !.Stderr = d.Stderr, !.Stdout = d.Stdout, !.Stdin = d.Stdin,
        !.SysProcAttr = d.SysProcAttr ]

\* ReFork's new Command: a fresh exec.Cmd with the previous argv.
ReForkCommand(d, path) ==
    [ ZeroCmd EXCEPT
        !.Path = path,
        !.Args = d.Command.Args,
        !.Stderr = d.Stderr, !.Stdout = d.Stdout, !.Stdin = d.Stdin,
        !.SysProcAttr = d.SysProcAttr ]

\* WithNameEnv appending to the Env the Command already has, without
\* taking os.Environ() first.
WithNameEnv_keepEnv(c, name) ==
    [c EXCEPT !.Env = Append(@, [var |-> nameVar, val |-> name])]

\* f.Command.Env = os.Environ(); append(f.Command.Env, nameVar+"="+f.Name)
WithNameEnv(c, name) ==
    [c EXCEPT !.Env = Append(osEnviron, [var |-> nameVar, val |-> name])]

\* append(f.Command.Env, argsVar+"="+af.Name())
WithArgsEnv(c, file) ==
    [c EXCEPT !.Env = Append(@, [var |-> argsVar, val |-> file])]

\* StartErr of a Cmd that could be started again.
StartErr_restartable(c) ==
    IF c.Path = "" THEN Err("fork/exec") ELSE NoErr

\* The error of exec.Cmd.Start: a Cmd starts one process only, and the OS
\* can execute a valid path only.
StartErr(c) ==
    IF c.Process # 0 THEN Err("exec: already started")
    ELSE IF c.Path = "" THEN Err("fork/exec")
    ELSE NoErr

\* The file a child gets for a stream of the Cmd: /dev/null for a nil
\* interface, a closed descriptor for a nil *os.File (os.ProcAttr.Files: "a
\* nil entry corresponds to that file being closed"), the file otherwise.
ChildFile(w) ==
    IF w = NilIface THEN "/dev/null"
    ELSE IF w = NilFile THEN "closed"
    ELSE w

\* AfterStart keeping the new handle in the Command only.
AfterStart_noHandle(d, c, err, pid) ==
    IF err = NoErr
    THEN [d EXCEPT !.Command = [c EXCEPT !.Process = pid]]
    ELSE [d EXCEPT !.Command = c]

\* The descriptor after f.Command.Start() returned err for Command c, pid
\* being the new process when it started one.
AfterStart(d, c, err, pid) ==
    IF err = NoErr
    THEN [d EXCEPT !.Command = [c EXCEPT !.Process = pid], !.Process = pid]
    ELSE [d EXCEPT !.Command = c]

\* WaitEarlyErr of a Cmd that could be waited for again.
WaitEarlyErr_repeatable(c) ==
    IF c.Process = 0 THEN Err("exec: not started") ELSE NoErr

\* The error of exec.Cmd.Wait before it blocks, if any.
WaitEarlyErr(c) ==
    IF c.Process = 0 THEN Err("exec: not started")
    ELSE IF c.finished THEN Err("exec: Wait was already called")
    ELSE NoErr

\* The error of exec.Cmd.Wait for a child that ended with outcome st.
ExitErr(st) == IF st = "exit 0" THEN NoErr ELSE Err("exit error")

\* AfterWait copying the Command's ProcessState whatever Wait returned.
AfterWait_recordAlways(d, st) ==
    LET c == [d.Command EXCEPT !.ProcessState = st]
    IN  [d EXCEPT !.Command = c, !.ProcessState = c.ProcessState]

\* The descriptor after f.Command.Wait() reaped a child that ended with st.
AfterWait(d, st) ==
    LET c == [d.Command EXCEPT !.ProcessState = st]
    IN  IF ExitErr(st) # NoErr THEN [d EXCEPT !.Command = c]
        ELSE [d EXCEPT !.Command = c, !.ProcessState = c.ProcessState]

(***************************************************************************)
(* State.                                                                  *)
(***************************************************************************)
VARIABLES
    desc,      \* what NewFork returned: "none" before the call, "nil", "ok"
    f,         \* the Function behind the returned pointer
    files,     \* the names of the temporary files created so far
    procs,     \* the child processes started so far: "running" or an outcome
    call,      \* the call that just returned (or panicked), until the caller
               \* goes on: operation, arguments, returned error, the child it
               \* started as the OS was given it, and the state it was made in
    pc,        \* "idle", "waiting" (blocked in Wait), "returned"
    crashed    \* the parent died of a panic

vars == <<desc, f, files, procs, call, pc, crashed>>

\* Function{}
ZeroFunction ==
    [ Name |-> "", fn |-> [kind |-> "invalid", in |-> <<>>],
      Stdin |-> NilFile, Stdout |-> NilFile, Stderr |-> NilFile,
      SysProcAttr |-> NilAttr, Process |-> 0, ProcessState |-> NilState,
      Command |-> ZeroCmd ]

NoFile == [name |-> "", content |-> <<>>, closed |-> FALSE]

NoChild ==
    [ path |-> "", argv |-> <<>>, env |-> <<>>,
      stdin |-> "", stdout |-> "", stderr |-> "", attr |-> NilAttr,
      file |-> NoFile ]

\* The process image os.StartProcess builds from Command c; file is the
\* argument file as it is when the child starts.
ChildOf(c, file) ==
    [ path |-> c.Path, argv |-> c.Args, env |-> c.Env,
      stdin |-> ChildFile(c.Stdin), stdout |-> ChildFile(c.Stdout),
      stderr |-> ChildFile(c.Stderr), attr |-> c.SysProcAttr,
      file |-> file ]

\* After a successful start both handles of the descriptor are the new
\* child: the program has no handle left to the earlier children and what
\* becomes of them is not followed any further.
Detached(ps) == [i \in 1..Len(ps) |-> "detached"]

\* The record of a call made in the current state; tmp is what became of
\* its temporary file: "none" (not asked for), "failed", "created".
Call(op, args, err, pid, image, tmp) ==
    [ op |-> op, args |-> args, err |-> err, pid |-> pid, child |-> image,
      tmp |-> tmp, pre |-> f, nprocs |-> Len(procs), nfiles |-> Len(files) ]

NoCall ==
    [ op |-> "none", args |-> <<>>, err |-> NoErr, pid |-> 0, child |-> NoChild,
      tmp |-> "none", pre |-> ZeroFunction, nprocs |-> 0, nfiles |-> 0 ]

Init ==
    /\ desc = "none"
    /\ f = ZeroFunction
    /\ files = <<>>
    /\ procs = <<>>
    /\ call = NoCall
    /\ pc = "idle"
    /\ crashed = FALSE

Ready == desc = "ok" /\ pc = "idle" /\ ~crashed

(***************************************************************************)
(* NewFork(n, fn, args...)                                                 *)
(***************************************************************************)
NewFork(n, fn, path, args) ==
    /\ desc = "none"
    /\ pc = "idle"
    /\ IF fn.kind # "func"
       THEN /\ desc' = "nil"
            /\ UNCHANGED f
       ELSE /\ desc' = "ok"
            /\ f' = NewFunction(n, fn, path, args)
    /\ call' = Call("NewFork", args, NoErr, 0, NoChild, "none")
    /\ pc' = "returned"
    /\ UNCHANGED <<files, procs, crashed>>

(***************************************************************************)
(* The caller's assignments to the exported fields of the descriptor,      *)
(* made before the first launch.                                           *)
(***************************************************************************)
SetStdin(v) ==
    /\ Ready
    /\ files = <<>>
    /\ f' = [f EXCEPT !.Stdin = v]
    /\ UNCHANGED <<desc, files, procs, call, pc, crashed>>

SetStdout(v) ==
    /\ Ready
    /\ files = <<>>
    /\ f' = [f EXCEPT !.Stdout = v]
    /\ UNCHANGED <<desc, files, procs, call, pc, crashed>>

SetStderr(v) ==
    /\ Ready
    /\ files = <<>>
    /\ f' = [f EXCEPT !.Stderr = v]
    /\ UNCHANGED <<desc, files, procs, call, pc, crashed>>

SetSysProcAttr(v) ==
    /\ Ready
    /\ files = <<>>
    /\ f' = [f EXCEPT !.SysProcAttr = v]
    /\ UNCHANGED <<desc, files, procs, call, pc, crashed>>

(***************************************************************************)
(* The common tail of Fork and ReFork: environment, temp file, encoding,   *)
(* Start.  c is the Command with the bindings already copied; created says *)
(* whether ioutil.TempFile succeeds.                                       *)
(***************************************************************************)
Launch(op, args, c, created) ==
    LET c1 == WithNameEnv(c, f.Name)
    IN  IF ~created
        THEN \* af is nil and af.Name() dereferences it
             /\ f' = [f EXCEPT !.Command = c1]
             /\ crashed' = TRUE
             /\ call' = Call(op, args, Panic, 0, NoChild, "failed")
             /\ UNCHANGED <<files, procs>>
        ELSE LET name == TempName(Len(files) + 1)
                 c2 == WithArgsEnv(c1, name)
                 file == [name |-> name, content |-> EncodeArgs(args),
                          closed |-> TRUE]
                 err == StartErr(c2)
                 pid == Len(procs) + 1
             IN  /\ files' = Append(files, name)
                 /\ f' = AfterStart(f, c2, err, pid)
                 /\ IF err = NoErr
                    THEN /\ procs' = Append(Detached(procs), "running")
                         /\ call' = Call(op, args, err, pid, ChildOf(c2, file), "created")
                    ELSE /\ call' = Call(op, args, err, 0, NoChild, "created")
                         /\ UNCHANGED procs
                 /\ UNCHANGED crashed

(***************************************************************************)
(* f.Fork(args...)                                                         *)
(***************************************************************************)
\* Fork copying the descriptor's bindings into its Command before it
\* validates the arguments.
Fork_bindFirst(args) ==
    /\ Ready
    /\ pc' = "returned"
    /\ UNCHANGED desc
    /\ LET v == validateArgs(f.fn, args)
       IN  IF v = Panic
           THEN /\ crashed' = TRUE
                /\ call' = Call("Fork", args, Panic, 0, NoChild, "none")
                /\ UNCHANGED <<f, files, procs>>
           ELSE IF v # NoErr
           THEN /\ call' = Call("Fork", args, v, 0, NoChild, "none")
                /\ f' = [f EXCEPT !.Command = ForkCommand(f)]
                /\ UNCHANGED <<files, procs, crashed>>
           ELSE /\ Len(files) < MaxFiles
                /\ \E created \in BOOLEAN :
                      Launch("Fork", args, ForkCommand(f), created)

Fork(args) ==
    /\ Ready
    /\ pc' = "returned"
    /\ UNCHANGED desc
    /\ LET v == validateArgs(f.fn, args)
       IN  IF v = Panic
           THEN /\ crashed' = TRUE
                /\ call' = Call("Fork", args, Panic, 0, NoChild, "none")
                /\ UNCHANGED <<f, files, procs>>
           ELSE IF v # NoErr
           THEN /\ call' = Call("Fork", args, v, 0, NoChild, "none")
                /\ UNCHANGED <<f, files, procs, crashed>>
           ELSE /\ Len(files) < MaxFiles
                /\ \E created \in BOOLEAN :
                      Launch("Fork", args, ForkCommand(f), created)

(***************************************************************************)
(* f.ReFork(args...)                                                       *)
(***************************************************************************)
ReFork(args) ==
    /\ Ready
    /\ Len(files) < MaxFiles
    /\ pc' = "returned"
    /\ UNCHANGED desc
    /\ \E path \in Executables, created \in BOOLEAN :
          Launch("ReFork", args, ReForkCommand(f, path), created)

(***************************************************************************)
(* f.Wait(): the call, which returns at once with an error or blocks, and  *)
(* its return once the child has ended.                                    *)
(***************************************************************************)
WaitCall ==
    /\ Ready
    /\ LET err == WaitEarlyErr(f.Command)
       IN  IF err # NoErr
           THEN /\ call' = Call("Wait", <<>>, err, 0, NoChild, "none")
                /\ pc' = "returned"
                /\ UNCHANGED f
           ELSE /\ call' = Call("Wait", <<>>, NoErr, 0, NoChild, "none")
                /\ pc' = "waiting"
                /\ f' = [f EXCEPT !.Command.finished = TRUE]
    /\ UNCHANGED <<desc, files, procs, crashed>>

WaitReturn ==
    /\ pc = "waiting"
    /\ procs[f.Command.Process] # "running"
    /\ LET st == procs[f.Command.Process]
       IN  /\ f' = AfterWait(f, st)
           /\ call' = [call EXCEPT !.err = ExitErr(st)]
    /\ pc' = "returned"
    /\ UNCHANGED <<desc, files, procs, crashed>>

(***************************************************************************)
(* The caller takes the result of the call and goes on.                    *)
(***************************************************************************)
Continue ==
    /\ pc = "returned"
    /\ ~crashed
    /\ call' = NoCall
    /\ pc' = "idle"
    /\ UNCHANGED <<desc, f, files, procs, crashed>>

(***************************************************************************)
(* A child process ends, on its own or by a signal.                        *)
(***************************************************************************)
ChildExit(pid, st) ==
    /\ pid \in 1..Len(procs)
    /\ procs[pid] = "running"
    /\ pc # "returned"
    /\ procs' = [procs EXCEPT ![pid] = st]
    /\ UNCHANGED <<desc, f, files, call, pc, crashed>>

Next ==
    \/ \E fn \in Targets, path \in Executables, args \in ArgVectors :
          NewFork("worker", fn, path, args)
    \/ \E v \in CallerFiles : SetStdin(v)
    \/ \E v \in CallerFiles : SetStdout(v)
    \/ \E v \in CallerFiles : SetStderr(v)
    \/ \E v \in CallerAttrs : SetSysProcAttr(v)
    \/ \E args \in ArgLists : Fork(args)
    \/ \E args \in ArgLists : ReFork(args)
    \/ WaitCall
    \/ WaitReturn
    \/ Continue
    \/ \E pid \in 1..MaxFiles, st \in Outcomes : ChildExit(pid, st)

Spec == Init /\ [][Next]_vars

(***************************************************************************)
(* Properties.  They are stated on the state in which a call has just      *)
(* returned: call holds its arguments and result, call.pre the descriptor  *)
(* as it was when the call was made.                                       *)
(***************************************************************************)
Returned(op) == pc = "returned" /\ call.op = op

Launched == pc = "returned" /\ call.op \in {"Fork", "ReFork"}

\* The declared parameter kinds of the target.
In == f.fn.in

\* The argument list has the declared count and, position by position, the
\* declared kinds.
ArgsMatch(t, args) ==
    /\ Len(args) = Len(t)
    /\ \A i \in 1..Len(t) : args[i].kind = t[i]

\* The call started no process and left the descriptor's handle alone.
NothingStarted ==
    /\ call.pid = 0
    /\ Len(procs) = call.nprocs
    /\ f.Process = call.pre.Process

\* The positions whose argument does not have the declared kind.
OffPositions(t, args) == { i \in 1..Len(t) : args[i].kind # t[i] }

FirstOff(t, args) ==
    CHOOSE i \in OffPositions(t, args) : \A j \in OffPositions(t, args) : i <= j

\* A Fork call with the declared number of arguments whose first argument
\* not of the declared kind is a typed value, at position FirstOff.
KindMismatchCall ==
    /\ Returned("Fork")
    /\ Len(call.args) = Len(In)
    /\ OffPositions(In, call.args) # {}
    /\ call.args[FirstOff(In, call.args)] # NilArg

\* C1: a Fork call whose number of arguments differs from the target's
\* number of parameters returns the arity error, starts no process and
\* leaves Process as it was.
C1_ArityErrorStartsNothing ==
    (Returned("Fork") /\ Len(call.args) # Len(In)) =>
        /\ call.err = ArityErr(In)
        /\ NothingStarted
        /\ ~crashed

C1_Witness ==
    /\ Returned("Fork")
    /\ Len(call.args) > Len(In)
    /\ call.err.kind = "incorrect number of args"
    /\ procs = <<>>

ValidForkCall ==
    /\ Returned("Fork")
    /\ ArgsMatch(In, call.args)
    /\ call.pre.Command.Path # ""
    /\ call.tmp = "created"

\* The call started a child and recorded its handle in Process.
StartedAndRecorded ==
    /\ call.err = NoErr
    /\ call.pid = call.nprocs + 1
    /\ Len(procs) = call.pid
    /\ procs[call.pid] = "running"
    /\ f.Process = call.pid

WaitOnChild ==
    /\ Returned("Wait")
    /\ call.pre.Command.Process # 0
    /\ ~call.pre.Command.finished

Reaped == call.pre.Command.Process

\* C4 as claimed: Wait on a launched child returns only after the child has
\* ended, and then ProcessState is set to that child's outcome, whatever the
\* outcome is.
C4_WaitRecordsOutcome ==
    WaitOnChild =>
        /\ procs[Reaped] \in Outcomes
        /\ f.ProcessState = procs[Reaped]

\* C5 as claimed: when the temporary file cannot be created, Fork and ReFork
\* return an error instead of crashing, and start no child.
C5_TempFileErrorReturned ==
    (Launched /\ call.tmp = "failed") =>
        /\ ~crashed
        /\ call.err \notin {NoErr, Panic}
        /\ call.pid = 0
        /\ Len(procs) = call.nprocs

\* C6 as claimed: when the OS fails to start the child, Fork and ReFork
\* return the start error and Process is unset after the call, whatever the
\* state the call was made in.
C6_StartFailureLeavesUnset ==
    (Launched /\ call.err.kind = "fork/exec") =>
        /\ call.pid = 0
        /\ Len(procs) = call.nprocs
        /\ f.Process = 0

Bound(field, parent) == IF field = NilFile THEN parent ELSE field

\* C8 as claimed: each standard stream of a child started by Fork or ReFork
\* is the parent's own stream when the caller left the descriptor's field
\* unset, and the caller's file when the caller set it.
C8_StreamsDefaultToParent ==
    (Launched /\ call.pid # 0) =>
        /\ call.child.stdin = Bound(call.pre.Stdin, "os.Stdin")
        /\ call.child.stdout = Bound(call.pre.Stdout, "os.Stdout")
        /\ call.child.stderr = Bound(call.pre.Stderr, "os.Stderr")

\* A ReFork call that started a child.
ReForkStarted == Returned("ReFork") /\ call.pid # 0

\* Every value of the sequence vs is one of the values of args.
OnlyOf(vs, args) ==
    \A i \in 1..Len(vs) : \E j \in 1..Len(args) : vs[i] = args[j]

\* C9: the argv of a descriptor never changes once it is built, and the
\* child a successful ReFork starts has that argv, the stream and
\* SysProcAttr bindings of the descriptor, and a payload made only of the
\* arguments of this ReFork call.
C9_ReForkReusesConfiguration ==
    /\ [](ReForkStarted =>
            /\ call.child.argv = call.pre.Command.Args
            /\ f.Command.Stdin = call.pre.Stdin
            /\ f.Command.Stdout = call.pre.Stdout
            /\ f.Command.Stderr = call.pre.Stderr
            /\ call.pre.Stdin # NilFile => call.child.stdin = call.pre.Stdin
            /\ call.pre.Stdout # NilFile => call.child.stdout = call.pre.Stdout
            /\ call.pre.Stderr # NilFile => call.child.stderr = call.pre.Stderr
            /\ call.child.attr = call.pre.SysProcAttr
            /\ OnlyOf(Decode(call.child.file.content), call.args))
    /\ [][desc = "ok" => f'.Command.Args = f.Command.Args]_vars

C9_Witness ==
    /\ ReForkStarted
    /\ call.pre.Process # 0
    /\ call.child.argv = <<"worker", "-x">>
    /\ call.pre.Stdout = "file"
    /\ call.pre.Stdin = NilFile
    /\ call.pre.SysProcAttr = "attr"
    /\ Len(call.child.file.content) = 2

\* The temporary file of the call that just started a child is the one
\* named in the child's environment, and the parent has closed it.
FileHandedOver ==
    /\ Len(files) = call.nfiles + 1
    /\ call.child.file.name = files[Len(files)]
    /\ \E i \in 1..Len(call.child.env) :
          call.child.env[i] = [var |-> argsVar, val |-> call.child.file.name]
    /\ call.child.file.closed

\* C10 as claimed: when Fork or ReFork starts a child, the temporary file in
\* the child's environment is closed and holds every argument of the call,
\* in call order and nothing else: decoding it gives the argument list.
C10_PayloadIsArgumentList ==
    (Launched /\ call.pid # 0) =>
        /\ FileHandedOver
        /\ Decode(call.child.file.content) = call.args

\* C10 as amended: the file is closed and holds, in call order and nothing
\* else, the arguments of the call that can be serialized; an argument that
\* cannot (a func value, an untyped nil) is left out without an error.
C10_PayloadIsSerializableArguments ==
    (Launched /\ call.pid # 0) =>
        /\ FileHandedOver
        /\ call.err = NoErr
        /\ Decode(call.child.file.content) = SelectSeq(call.args, Encodable)

C10_Witness ==
    /\ Launched
    /\ call.pid # 0
    /\ Len(call.args) = 2
    /\ ~Encodable(call.args[1])
    /\ Encodable(call.args[2])
    /\ Len(call.child.file.content) = 1

\* The environment of a child of the descriptor with routing name n whose
\* argument file is file: the parent's environment and the two entries of
\* the protocol after it.
ChildEnv(n, file) ==
    osEnviron \o << [var |-> nameVar, val |-> n], [var |-> argsVar, val |-> file] >>

\* C11: the environment of every child Fork or ReFork starts, whatever was
\* launched through the descriptor before, is the parent's environment
\* followed by exactly two entries, the routing name of the descriptor and
\* the path of the temporary file this call created; nothing of an earlier
\* launch is in it.
C11_EnvironmentIsParentPlusTwo ==
    (Launched /\ call.pid # 0) =>
        /\ Len(files) = call.nfiles + 1
        /\ call.child.env = ChildEnv(call.pre.Name, files[Len(files)])
        /\ \A i \in 1..call.nfiles :
              \A j \in 1..Len(call.child.env) : call.child.env[j].val # files[i]

C11_Witness ==
    /\ ReForkStarted
    /\ call.nfiles = 1
    /\ call.pre.Command.Env = ChildEnv("worker", files[1])
    /\ call.child.env = ChildEnv("worker", files[2])
    /\ files[1] # files[2]

C13_ProcessStateOnlyWithProcess ==
    /\ f.ProcessState # NilState => f.Process # 0
    /\ (Returned("NewFork") /\ desc = "ok") =>
           /\ f.Process = 0
           /\ f.ProcessState = NilState

C13_Witness ==
    /\ WaitOnChild
    /\ call.pre.ProcessState = NilState
    /\ f.ProcessState = "exit 0"
    /\ f.Process = Reaped

\* A Fork call that validation rejected with an error.
ValidationFailed ==
    /\ Returned("Fork")
    /\ call.err.kind \in {"incorrect number of args", "argument mismatch"}

\* C14: a Fork call rejected by validation, for the number of arguments or
\* for a kind, has no side effect: the whole descriptor (its Command with
\* streams, SysProcAttr, Env and argv, Process, ProcessState) is as it was
\* when the call was made, no temporary file is created and no process is
\* started.
C14_RejectedForkChangesNothing ==
    ValidationFailed =>
        /\ f = call.pre
        /\ call.tmp = "none"
        /\ Len(files) = call.nfiles
        /\ call.pid = 0
        /\ Len(procs) = call.nprocs

C14_Witness ==
    /\ ValidationFailed
    /\ call.err.kind = "argument mismatch"
    /\ call.pre.Stdout = "file"
    /\ call.pre.Command.Stdout = "os.Stdout"
    /\ call.pre.Command.Env = <<>>
    /\ f.Command = call.pre.Command
    /\ files = <<>>

\* C15: every NewFork call with a target that is not a function value (an
\* int, or nil) returns the nil pointer, and every NewFork call with a
\* function value returns a descriptor with the given name and target,
\* Process and ProcessState unset, and as argv the caller's args or, when
\* there are none, the single element os.Args[0].
C15_NewForkResult ==
    [][desc = "none" =>
         \A fn \in Targets, path \in Executables, args \in ArgVectors :
            NewFork("worker", fn, path, args) =>
               IF fn.kind # "func"
               THEN desc' = "nil"
               ELSE /\ desc' = "ok"
                    /\ f'.Name = "worker"
                    /\ f'.fn = fn
                    /\ f'.Process = 0
                    /\ f'.ProcessState = NilState
                    /\ f'.Command.Args =
                          IF args = <<>> THEN <<osArgs0>> ELSE args]_vars

C15_Witness ==
    /\ Returned("NewFork")
    /\ desc = "ok"
    /\ call.args = <<>>
    /\ f.Name = "worker"
    /\ f.fn.kind = "func"
    /\ f.Command.Args = <<osArgs0>>

\* C16 as claimed: every child started through the descriptor, by Fork or by
\* ReFork, is started with an argument list that has the declared number
\* of arguments and the declared kind at every position.
C16_ChildrenGetValidArguments ==
    (Launched /\ call.pid # 0) => ArgsMatch(In, call.args)

\* C17 as claimed: in every reachable state a set ProcessState is the
\* outcome of the process Process refers to; ReFork leaves no outcome of
\* an earlier child next to the handle of the child it started.
C17_ProcessStateIsOfProcess ==
    f.ProcessState # NilState =>
        /\ f.Process \in 1..Len(procs)
        /\ procs[f.Process] = f.ProcessState

\* C18 as claimed: whenever the program is running, after any calls that
\* succeeded or failed, Process and the Command's Process, the one Wait
\* acts on, are the same: both unset or both the same child.
C18_ProcessIsCommandProcess ==
    ~crashed => f.Process = f.Command.Process

\* A Wait call on a Command whose child an earlier Wait call has already
\* returned for.
SecondWait == call.op = "Wait" /\ call.pre.Command.finished

\* C19: a second Wait on the same launch, after the first Wait has
\* returned for that child, does not block, returns an error, and leaves
\* ProcessState, and the rest of the descriptor, exactly as the first Wait
\* left it.
C19_SecondWaitFails ==
    SecondWait =>
        /\ pc = "returned"
        /\ call.err = Err("exec: Wait was already called")
        /\ f.ProcessState = call.pre.ProcessState
        /\ f = call.pre

C19_Witness ==
    /\ SecondWait
    /\ pc = "returned"
    /\ call.err.kind = "exec: Wait was already called"
    /\ call.pre.ProcessState = "exit 0"
    /\ f.ProcessState = "exit 0"
    /\ procs[f.Process] = "exit 0"

\* C20 as claimed: a Fork call that did not get past validation, whatever
\* its argument list, an untyped nil in it included, has returned an error
\* value: the program has not crashed, and no process was started.
C20_ValidationNeverCrashes ==
    (Returned("Fork") /\ call.tmp = "none") =>
        /\ ~crashed
        /\ call.err \notin {NoErr, Panic}
        /\ NothingStarted

====
